---- MODULE Spec2Model ----
(***************************************************************************)
(* Server side of the diary-mood application: the three route handlers     *)
(* (sentiment, spotify recommendations, entries), the classifier wrapper   *)
(* analyzeSentiment and SpotifyService.  Every handler is request-scoped,  *)
(* so one action is one whole request; `last` keeps what that request did  *)
(* (its inputs, the outbound calls it issued, in order, and its response). *)
(*                                                                         *)
(* Client side: the DiaryEntry form.  `form` is the component's state,     *)
(* `tasks` the invocations of its async handlers that wait for a response, *)
(* and `did` what the last step of the form did.  An action is what runs   *)
(* between two awaits.  `recent` is the RecentEntries component, `page` the *)
(* browser on the dashboard and sign-in pages.                             *)
(*                                                                         *)
(* Numbers: audio features are in tenths (0.7 is 7), confidence likewise.  *)
(* JavaScript `undefined` is the string "undefined" where the code uses it *)
(* as a property key or compares strings, and NoNum where a number is      *)
(* expected.                                                               *)
(***************************************************************************)
EXTENDS Integers, Sequences, FiniteSets, TLC

VARIABLES entries, clock, last, form, tasks, did, page, recent

vars == <<entries, clock, last, form, tasks, did, page, recent>>

client == <<form, tasks, did>>

pages == <<page, recent>>

Undef == "undefined"
NoNum == -1

(***************************************************************************)
(* Bounds of the model.                                                    *)
(***************************************************************************)
MaxTextLen == 2
MaxNew == 1
PreFill == 54

(***************************************************************************)
(* JavaScript property lookup on an object literal, obj[key].  An object   *)
(* literal inherits from Object.prototype, so obj["constructor"],          *)
(* obj["toString"], obj["__proto__"], ... find an inherited member (a      *)
(* function, or Object.prototype itself): truthy, neither iterable nor     *)
(* carrying own enumerable properties.                                     *)
(***************************************************************************)
ObjectPrototypeKeys ==
    {"constructor", "toString", "valueOf", "hasOwnProperty", "__proto__"}

Lookup(obj, key) ==
    IF key \in DOMAIN obj THEN "own"
    ELSE IF key \in ObjectPrototypeKeys THEN "inherited"
    ELSE "undefined"

\* Object spread {...a, ...b}: b's own fields win, a's other fields stay.
SpreadBaseWinsBug(a, b) ==
    [f \in DOMAIN a \cup DOMAIN b |-> IF f \in DOMAIN a THEN a[f] ELSE b[f]]

Spread(a, b) ==
    [f \in DOMAIN a \cup DOMAIN b |-> IF f \in DOMAIN b THEN b[f] ELSE a[f]]

\* What spreading an inherited member (a function, Object.prototype) adds:
\* it has no own enumerable properties.
EmptyObject == [f \in {} |-> NoNum]

\* obj.f for an object that may lack the field
Field(obj, f) == IF f \in DOMAIN obj THEN obj[f] ELSE NoNum

(***************************************************************************)
(* SpotifyService.getGenresBySentiment                                     *)
(***************************************************************************)
genreMap ==
    [positive |-> <<"pop", "indie", "electronic", "dance", "funk">>,
     negative |-> <<"indie", "alternative", "blues", "folk", "ambient">>,
     neutral  |-> <<"chill", "acoustic", "indie-folk", "ambient", "jazz">>]

moodGenres ==
    [happy      |-> <<"pop", "dance", "funk", "disco">>,
     energetic  |-> <<"electronic", "dance", "rock", "pop">>,
     calm       |-> <<"ambient", "chill", "acoustic", "classical">>,
     sad        |-> <<"blues", "indie", "folk", "alternative">>,
     anxious    |-> <<"ambient", "chill", "classical">>,
     excited    |-> <<"pop", "electronic", "dance">>,
     melancholy |-> <<"indie", "alternative", "folk">>,
     peaceful   |-> <<"ambient", "classical", "acoustic">>,
     angry      |-> <<"rock", "alternative", "metal">>,
     content    |-> <<"indie", "folk", "acoustic">>]

\* [...(genreMap[sentiment] || genreMap.neutral), ...(moodGenres[mood] || [])]
\* Spreading a non-iterable into an array literal raises a TypeError.
getGenresMoodFirstBug(sentiment, mood) ==
    LET b == Lookup(genreMap, sentiment)
        m == Lookup(moodGenres, mood)
        base == IF b = "own" THEN genreMap[sentiment] ELSE genreMap.neutral
        extra == IF m = "own" THEN moodGenres[mood] ELSE <<>>
    IN  IF b = "inherited" \/ m = "inherited"
        THEN [threw |-> TRUE, value |-> <<>>]
        ELSE [threw |-> FALSE, value |-> extra \o base]

\* the two lists merged alternately instead of one after the other
getGenresInterleavedBug(sentiment, mood) ==
    LET b == Lookup(genreMap, sentiment)
        m == Lookup(moodGenres, mood)
        base == IF b = "own" THEN genreMap[sentiment] ELSE genreMap.neutral
        extra == IF m = "own" THEN moodGenres[mood] ELSE <<>>
        k == IF Len(extra) < Len(base) THEN Len(extra) ELSE Len(base)
    IN  IF b = "inherited" \/ m = "inherited"
        THEN [threw |-> TRUE, value |-> <<>>]
        ELSE [threw |-> FALSE,
              value |-> [i \in 1..(2 * k) |->
                            IF i % 2 = 1 THEN base[(i + 1) \div 2]
                            ELSE extra[i \div 2]]
                        \o SubSeq(base, k + 1, Len(base))
                        \o SubSeq(extra, k + 1, Len(extra))]

getGenresBySentiment(sentiment, mood) ==
    LET b == Lookup(genreMap, sentiment)
        m == Lookup(moodGenres, mood)
        base == IF b = "own" THEN genreMap[sentiment] ELSE genreMap.neutral
        extra == IF m = "own" THEN moodGenres[mood] ELSE <<>>
    IN  IF b = "inherited" \/ m = "inherited"
        THEN [threw |-> TRUE, value |-> <<>>]
        ELSE [threw |-> FALSE, value |-> base \o extra]

(***************************************************************************)
(* SpotifyService.getAudioFeaturesBySentiment                              *)
(***************************************************************************)
baseFeatures ==
    [positive |-> [valence |-> 7, energy |-> 6, danceability |-> 6],
     negative |-> [valence |-> 3, energy |-> 4, danceability |-> 4],
     neutral  |-> [valence |-> 5, energy |-> 5, danceability |-> 5]]

moodAdjustments ==
    [energetic |-> [energy |-> 8, danceability |-> 7],
     calm      |-> [energy |-> 3, valence |-> 6],
     excited   |-> [energy |-> 9, valence |-> 8, danceability |-> 8],
     sad       |-> [valence |-> 2, energy |-> 3],
     peaceful  |-> [valence |-> 7, energy |-> 2]]

\* base = baseFeatures[sentiment] || baseFeatures.neutral
\* adjustments = moodAdjustments[mood] || {};  return {...base, ...adjustments}
getAudioFeaturesBySentiment(sentiment, mood) ==
    LET b == Lookup(baseFeatures, sentiment)
        a == Lookup(moodAdjustments, mood)
        base == IF b = "own" THEN baseFeatures[sentiment]
                ELSE IF b = "inherited" THEN EmptyObject
                ELSE baseFeatures.neutral
        adjustments == IF a = "own" THEN moodAdjustments[mood]
                       ELSE EmptyObject
    IN  Spread(base, adjustments)

(***************************************************************************)
(* SpotifyService.getRecommendations.  catalog is what the catalog service *)
(* does with the request: answer OK with a track list, answer with a       *)
(* non-OK status, fail at the network level, or send an unparsable body.   *)
(* The result names the query that was built (the seed list is kept as the *)
(* list that join(',') writes out, the targets as the numbers toString     *)
(* writes out), the outbound calls issued and the tracks returned.         *)
(***************************************************************************)
NoQuery ==
    [built |-> FALSE, seed_genres |-> <<>>,
     target_valence |-> NoNum, target_energy |-> NoNum,
     target_danceability |-> NoNum]

Min(a, b) == IF a <= b THEN a ELSE b

\* Array.prototype.slice(0, n)
SliceNoLimitBug(seq, n) == seq

\* slice(1, n + 1)
SliceSkipFirstBug(seq, n) == SubSeq(seq, 2, Min(n + 1, Len(seq)))

Slice(seq, n) == SubSeq(seq, 1, Min(n, Len(seq)))

BuildQuery(sentiment, mood) ==
    LET genres == getGenresBySentiment(sentiment, mood)
        features == getAudioFeaturesBySentiment(sentiment, mood)
    IN  IF genres.threw THEN NoQuery
        \* undefined.toString() raises a TypeError
        ELSE IF \E f \in {"valence", "energy", "danceability"} :
                    Field(features, f) = NoNum
        THEN NoQuery
        ELSE [built |-> TRUE,
              seed_genres |-> Slice(genres.value, 3),
              target_valence |-> Field(features, "valence"),
              target_energy |-> Field(features, "energy"),
              target_danceability |-> Field(features, "danceability")]

\* rejected: the promise the method returns rejects (its catch makes that
\* impossible)
getRecommendationsNoCatchBug(sentiment, mood, catalog) ==
    LET genres == getGenresBySentiment(sentiment, mood)
        query == BuildQuery(sentiment, mood)
    IN  IF ~query.built
        THEN [rejected |-> TRUE, threw |-> TRUE, genres |-> genres.value,
              query |-> query, calls |-> <<>>, tracks |-> <<>>]
        ELSE [rejected |-> catalog.kind # "ok", threw |-> FALSE,
              genres |-> genres.value, query |-> query,
              calls |-> <<"catalog.recommendations">>,
              tracks |-> IF catalog.kind = "ok" THEN catalog.tracks ELSE <<>>]

getRecommendations(sentiment, mood, catalog) ==
    LET genres == getGenresBySentiment(sentiment, mood)
        query == BuildQuery(sentiment, mood)
    IN  IF ~query.built
        \* the TypeError is caught by the method's own catch: return []
        THEN [rejected |-> FALSE, threw |-> TRUE, genres |-> genres.value,
              query |-> query, calls |-> <<>>, tracks |-> <<>>]
        \* a non-OK status throws, fetch or response.json() rejects: all are
        \* caught: return []
        ELSE [rejected |-> FALSE, threw |-> FALSE,
              genres |-> genres.value, query |-> query,
              calls |-> <<"catalog.recommendations">>,
              tracks |-> IF catalog.kind = "ok" THEN catalog.tracks ELSE <<>>]

(***************************************************************************)
(* SpotifyService.createPlaylist.  me, create and add are what the catalog *)
(* service does with the three requests: answer OK with a body carrying an *)
(* id, answer with a non-OK status, fail at the network level, or answer   *)
(* OK with a body that does not parse.  The result names the calls issued, *)
(* in order, the outcome of each, and the value returned (the playlist's   *)
(* id stands for the playlist object, "null" for null).                    *)
(***************************************************************************)
\* the track step issued whether or not there are tracks
createPlaylistAlwaysAddBug(name, trackIds, me, create, add) ==
    IF me.kind # "ok"
    THEN [calls |-> <<"spotify.me">>, outcomes |-> <<me>>,
          playlist |-> "null"]
    ELSE IF create.kind # "ok"
    THEN [calls |-> <<"spotify.me", "spotify.createPlaylist">>,
          outcomes |-> <<me, create>>, playlist |-> "null"]
    ELSE [calls |-> <<"spotify.me", "spotify.createPlaylist",
                      "spotify.addTracks">>,
          outcomes |-> <<me, create, add>>,
          playlist |-> IF add.kind = "network" THEN "null" ELSE create.id]

createPlaylist(name, trackIds, me, create, add) ==
    \* fetch rejects, or userResponse.json() rejects (both caught), or
    \* `if (!userResponse.ok) return null`
    IF me.kind # "ok"
    THEN [calls |-> <<"spotify.me">>, outcomes |-> <<me>>,
          playlist |-> "null"]
    \* the same for POST /users/{user.id}/playlists
    ELSE IF create.kind # "ok"
    THEN [calls |-> <<"spotify.me", "spotify.createPlaylist">>,
          outcomes |-> <<me, create>>, playlist |-> "null"]
    \* if (trackIds.length > 0): the response of the third fetch is awaited
    \* and dropped; only a rejection reaches the catch
    ELSE IF Len(trackIds) > 0
    THEN [calls |-> <<"spotify.me", "spotify.createPlaylist",
                      "spotify.addTracks">>,
          outcomes |-> <<me, create, add>>,
          playlist |-> IF add.kind = "network" THEN "null" ELSE create.id]
    ELSE [calls |-> <<"spotify.me", "spotify.createPlaylist">>,
          outcomes |-> <<me, create>>, playlist |-> create.id]

(***************************************************************************)
(* lib/sentiment.ts: analyzeSentiment.  A classifier result is a JavaScript*)
(* object read through the SentimentResult interface; a field the object   *)
(* lacks reads as undefined.                                               *)
(***************************************************************************)
DefaultResult == [sentiment |-> "neutral", confidence |-> 5, mood |-> "calm"]

EmptyResult == [sentiment |-> Undef, confidence |-> NoNum, mood |-> Undef]

\* JSON.parse of the message content, after `content || '{}'`
JSONParse(content) ==
    CASE content.form = "text" -> [threw |-> TRUE, value |-> EmptyResult]
      [] content.form = "json" -> [threw |-> FALSE, value |-> content.obj]
      [] OTHER -> [threw |-> FALSE, value |-> EmptyResult]

analyzeSentimentNoCatchBug(text, classifier) ==
    [threw |-> classifier.kind # "content", calls |-> <<"classifier">>,
     result |-> IF classifier.kind = "content"
                THEN JSONParse(classifier.content).value ELSE EmptyResult]

analyzeSentiment(text, classifier) ==
    LET parsed == JSONParse(classifier.content)
    IN  [threw |-> FALSE, calls |-> <<"classifier">>,
         result |->
            \* openai.chat.completions.create rejects
            IF classifier.kind = "throws" THEN DefaultResult
            \* response.choices[0] is undefined: reading .message throws
            ELSE IF classifier.kind = "nochoices" THEN DefaultResult
            ELSE IF parsed.threw THEN DefaultResult
            ELSE parsed.value]

(***************************************************************************)
(* Sessions: what getServerSession(authOptions) resolves to.               *)
(***************************************************************************)
NoSession == [present |-> FALSE, email |-> Undef, accessToken |-> Undef]

SessionOf(email, token) ==
    [present |-> TRUE, email |-> email, accessToken |-> token]

Sessions ==
    {NoSession,
     SessionOf("a@x", "tok"), SessionOf("b@x", "tok"),
     SessionOf("ghost@x", "tok"),
     SessionOf(Undef, "tok"), SessionOf("a@x", Undef)}

\* the User table: email -> id ("ghost@x" has a session but no row)
UserTable == [e \in {"a@x", "b@x"} |-> IF e = "a@x" THEN "u1" ELSE "u2"]

(***************************************************************************)
(* What one request did.  Fields a handler does not reach keep the values  *)
(* of Idle.                                                                *)
(***************************************************************************)
NoText == [kind |-> "undefined", chars |-> <<>>]
NoClassifier == [kind |-> "none", content |-> [form |-> "null", obj |-> EmptyResult]]
NoCatalog == [kind |-> "none", tracks |-> <<>>]
\* userId is a field the handler's destructuring does not name: a client may
\* still send it
NoBody ==
    [content |-> Undef, sentiment |-> Undef, confidence |-> NoNum,
     mood |-> Undef, songId |-> Undef, userId |-> Undef]

Idle ==
    [endpoint |-> "none", session |-> NoSession, parsed |-> FALSE,
     status |-> 0, calls |-> <<>>,
     text |-> NoText, classifier |-> NoClassifier, result |-> EmptyResult,
     sentiment |-> Undef, mood |-> Undef, catalog |-> NoCatalog,
     threw |-> FALSE, genres |-> <<>>, query |-> NoQuery, tracks |-> <<>>,
     body |-> NoBody, dbFail |-> "none", rows |-> <<>>,
     name |-> Undef, trackIds |-> <<>>, outcomes |-> <<>>,
     playlist |-> Undef]

(***************************************************************************)
(* app/api/sentiment/route.ts: POST                                        *)
(***************************************************************************)
WhiteSpace == {" ", "\n"}

\* String.prototype.trim
RECURSIVE TrimStart(_)
TrimStart(cs) ==
    IF cs # <<>> /\ Head(cs) \in WhiteSpace THEN TrimStart(Tail(cs)) ELSE cs

RECURSIVE TrimEnd(_)
TrimEnd(cs) ==
    IF cs # <<>> /\ cs[Len(cs)] \in WhiteSpace
    THEN TrimEnd(SubSeq(cs, 1, Len(cs) - 1)) ELSE cs

Trim(cs) == TrimEnd(TrimStart(cs))

\* !text
Falsy(text) ==
    text.kind = "undefined" \/ (text.kind = "string" /\ text.chars = <<>>)

\* !text || text.trim().length === 0
TextRequiredNoTrimBug(text) == Falsy(text)

TextRequired(text) ==
    Falsy(text) \/ (text.kind = "string" /\ Len(Trim(text.chars)) = 0)

SentimentPOST(session, parsed, text, classifier) ==
    LET req == [Idle EXCEPT !.endpoint = "sentiment", !.session = session]
        r == analyzeSentiment(text, classifier)
    IN  IF ~session.present THEN [req EXCEPT !.status = 401]
        \* request.json() rejects: the handler's catch answers 500
        ELSE IF ~parsed THEN [req EXCEPT !.status = 500]
        ELSE IF TextRequired(text)
        THEN [req EXCEPT !.parsed = TRUE, !.text = text, !.status = 400]
        \* a truthy text that is no string has no trim method: TypeError
        ELSE IF text.kind # "string"
        THEN [req EXCEPT !.parsed = TRUE, !.text = text, !.status = 500]
        ELSE IF r.threw
        THEN [req EXCEPT !.parsed = TRUE, !.text = text,
                         !.classifier = classifier, !.calls = r.calls,
                         !.status = 500]
        ELSE [req EXCEPT !.parsed = TRUE, !.text = text,
                         !.classifier = classifier, !.calls = r.calls,
                         !.result = r.result, !.status = 200]

(***************************************************************************)
(* app/api/spotify/recommendations/route.ts: POST                          *)
(***************************************************************************)
RecommendationsPOST(session, parsed, sentiment, mood, catalog) ==
    LET req == [Idle EXCEPT !.endpoint = "recommendations",
                            !.session = session]
        r == getRecommendations(sentiment, mood, catalog)
    IN  IF ~session.present \/ session.accessToken = Undef
        THEN [req EXCEPT !.status = 401]
        ELSE IF ~parsed THEN [req EXCEPT !.status = 500]
        \* a rejection of getRecommendations reaches the handler's catch
        ELSE IF r.rejected
        THEN [req EXCEPT !.parsed = TRUE, !.sentiment = sentiment,
                         !.mood = mood,
                         !.catalog = IF r.calls = <<>> THEN NoCatalog
                                     ELSE catalog,
                         !.calls = r.calls, !.status = 500]
        ELSE [req EXCEPT !.parsed = TRUE, !.sentiment = sentiment,
                         !.mood = mood,
                         !.catalog = IF r.calls = <<>> THEN NoCatalog
                                     ELSE catalog,
                         !.threw = r.threw, !.genres = r.genres,
                         !.query = r.query,
                         !.calls = r.calls, !.tracks = r.tracks,
                         !.status = 200]

(***************************************************************************)
(* prisma: the Entry table (prisma/schema.prisma, model Entry) is the      *)
(* sequence `entries`, in insertion order; a row's id is its index.  date  *)
(* and createdAt both default to now(), and the handler passes neither.    *)
(***************************************************************************)
\* data written as { userId: user.id, ...body }
NewEntryOwnerFromBodyBug(store, userId, body, now) ==
    [id |-> Len(store) + 1,
     userId |-> IF body.userId # Undef THEN body.userId ELSE userId,
     content |-> body.content,
     sentiment |-> body.sentiment, confidence |-> body.confidence,
     mood |-> body.mood, songId |-> body.songId,
     date |-> now, createdAt |-> now]

NewEntry(store, userId, body, now) ==
    [id |-> Len(store) + 1, userId |-> userId, content |-> body.content,
     sentiment |-> body.sentiment, confidence |-> body.confidence,
     mood |-> body.mood, songId |-> body.songId,
     date |-> now, createdAt |-> now]

\* prisma.user.findUnique({ where: { email } }): the row's id, or null
findUnique(email) ==
    IF email \in DOMAIN UserTable THEN UserTable[email] ELSE Undef

Take == 50

\* orderBy: { date: 'desc' }: does row a come before row b?  Rows with equal
\* dates come in an order the database chooses: tieBreak names it (by
\* insertion order, or against it).
Before(a, b, tieBreak) ==
    \/ a.date > b.date
    \/ /\ a.date = b.date
       /\ IF tieBreak = "asc" THEN a.id < b.id ELSE a.id > b.id

Reverse(seq) == [i \in 1..Len(seq) |-> seq[Len(seq) + 1 - i]]

\* the rows sorted by Before (the table is scanned from its newest row)
OrderByDateDesc(rows, tieBreak) ==
    SortSeq(Reverse(rows), LAMBDA a, b : Before(a, b, tieBreak))

\* take: n
TakeRowsNoLimitBug(rows, n) == rows

TakeRows(rows, n) == SubSeq(rows, 1, Min(n, Len(rows)))

\* prisma.entry.findMany({ where: { userId }, orderBy: { date: 'desc' }, take: 50 })
findManyNoWhereBug(store, userId, tieBreak) ==
    TakeRows(OrderByDateDesc(store, tieBreak), Take)

findMany(store, userId, tieBreak) ==
    LET mine == SelectSeq(store, LAMBDA r : r.userId = userId)
    IN  TakeRows(OrderByDateDesc(mine, tieBreak), Take)

(***************************************************************************)
(* app/api/entries/route.ts: POST and GET.  dbFail names the prisma call   *)
(* that rejects during this request, if any.  POST yields the response and *)
(* the table after the request.                                            *)
(***************************************************************************)
\* the `if (!user)` answer left out: create is reached with no owner and
\* rejects
EntriesPOSTNoUserCheckBug(store, session, parsed, body, dbFail, now) ==
    LET req == [Idle EXCEPT !.endpoint = "entries.POST", !.session = session]
        in == [req EXCEPT !.parsed = TRUE, !.body = body, !.dbFail = dbFail]
        userId == findUnique(session.email)
        entry == NewEntry(store, userId, body, now)
    IN  IF ~session.present \/ session.email = Undef
        THEN [resp |-> [req EXCEPT !.status = 401], store |-> store]
        ELSE IF ~parsed
        THEN [resp |-> [req EXCEPT !.status = 500], store |-> store]
        ELSE IF dbFail = "user.findUnique"
        THEN [resp |-> [in EXCEPT !.calls = <<"user.findUnique">>,
                                  !.status = 500],
              store |-> store]
        ELSE IF dbFail = "entry.create" \/ body.content = Undef
                   \/ userId = Undef
        THEN [resp |-> [in EXCEPT !.calls = <<"user.findUnique", "entry.create">>,
                                  !.status = 500],
              store |-> store]
        ELSE [resp |-> [in EXCEPT !.calls = <<"user.findUnique", "entry.create">>,
                                  !.rows = <<entry>>, !.status = 200],
              store |-> Append(store, entry)]

\* a rejected create issued a second time
EntriesPOSTRetryBug(store, session, parsed, body, dbFail, now) ==
    LET req == [Idle EXCEPT !.endpoint = "entries.POST", !.session = session]
        in == [req EXCEPT !.parsed = TRUE, !.body = body, !.dbFail = dbFail]
        userId == findUnique(session.email)
        entry == NewEntry(store, userId, body, now)
    IN  IF ~session.present \/ session.email = Undef
        THEN [resp |-> [req EXCEPT !.status = 401], store |-> store]
        ELSE IF ~parsed
        THEN [resp |-> [req EXCEPT !.status = 500], store |-> store]
        ELSE IF dbFail = "user.findUnique"
        THEN [resp |-> [in EXCEPT !.calls = <<"user.findUnique">>,
                                  !.status = 500],
              store |-> store]
        ELSE IF userId = Undef
        THEN [resp |-> [in EXCEPT !.calls = <<"user.findUnique">>,
                                  !.status = 404],
              store |-> store]
        ELSE IF body.content = Undef
        THEN [resp |-> [in EXCEPT !.calls = <<"user.findUnique", "entry.create">>,
                                  !.status = 500],
              store |-> store]
        ELSE [resp |-> [in EXCEPT !.calls =
                               IF dbFail = "entry.create"
                               THEN <<"user.findUnique", "entry.create",
                                      "entry.create">>
                               ELSE <<"user.findUnique", "entry.create">>,
                                  !.rows = <<entry>>, !.status = 200],
              store |-> Append(store, entry)]

\* create written as an update of the newest row
EntriesPOSTOverwriteBug(store, session, parsed, body, dbFail, now) ==
    LET req == [Idle EXCEPT !.endpoint = "entries.POST", !.session = session]
        in == [req EXCEPT !.parsed = TRUE, !.body = body, !.dbFail = dbFail]
        userId == findUnique(session.email)
        entry == [NewEntry(store, userId, body, now) EXCEPT !.id = Len(store)]
    IN  IF ~session.present \/ session.email = Undef
        THEN [resp |-> [req EXCEPT !.status = 401], store |-> store]
        ELSE IF ~parsed
        THEN [resp |-> [req EXCEPT !.status = 500], store |-> store]
        ELSE IF dbFail = "user.findUnique"
        THEN [resp |-> [in EXCEPT !.calls = <<"user.findUnique">>,
                                  !.status = 500],
              store |-> store]
        ELSE IF userId = Undef
        THEN [resp |-> [in EXCEPT !.calls = <<"user.findUnique">>,
                                  !.status = 404],
              store |-> store]
        ELSE IF dbFail = "entry.create" \/ body.content = Undef
                   \/ store = <<>>
        THEN [resp |-> [in EXCEPT !.calls = <<"user.findUnique", "entry.create">>,
                                  !.status = 500],
              store |-> store]
        ELSE [resp |-> [in EXCEPT !.calls = <<"user.findUnique", "entry.create">>,
                                  !.rows = <<entry>>, !.status = 200],
              store |-> [store EXCEPT ![Len(store)] = entry]]

EntriesPOST(store, session, parsed, body, dbFail, now) ==
    LET req == [Idle EXCEPT !.endpoint = "entries.POST", !.session = session]
        in == [req EXCEPT !.parsed = TRUE, !.body = body, !.dbFail = dbFail]
        userId == findUnique(session.email)
        entry == NewEntry(store, userId, body, now)
    IN  IF ~session.present \/ session.email = Undef
        THEN [resp |-> [req EXCEPT !.status = 401], store |-> store]
        ELSE IF ~parsed
        THEN [resp |-> [req EXCEPT !.status = 500], store |-> store]
        ELSE IF dbFail = "user.findUnique"
        THEN [resp |-> [in EXCEPT !.calls = <<"user.findUnique">>,
                                  !.status = 500],
              store |-> store]
        ELSE IF userId = Undef
        THEN [resp |-> [in EXCEPT !.calls = <<"user.findUnique">>,
                                  !.status = 404],
              store |-> store]
        \* content is a required column: create rejects without it
        ELSE IF dbFail = "entry.create" \/ body.content = Undef
        THEN [resp |-> [in EXCEPT !.calls = <<"user.findUnique", "entry.create">>,
                                  !.status = 500],
              store |-> store]
        ELSE [resp |-> [in EXCEPT !.calls = <<"user.findUnique", "entry.create">>,
                                  !.rows = <<entry>>, !.status = 200],
              store |-> Append(store, entry)]

\* the user lookup issued before the session is looked at
EntriesGETLookupFirstBug(store, session, dbFail, tieBreak) ==
    LET req == [Idle EXCEPT !.endpoint = "entries.GET", !.session = session,
                            !.dbFail = dbFail]
        userId == findUnique(session.email)
    IN  IF dbFail = "user.findUnique"
        THEN [req EXCEPT !.calls = <<"user.findUnique">>, !.status = 500]
        ELSE IF userId = Undef
        THEN [req EXCEPT !.calls = <<"user.findUnique">>, !.status = 404]
        ELSE IF ~session.present \/ session.email = Undef
        THEN [req EXCEPT !.calls = <<"user.findUnique">>, !.status = 401]
        ELSE IF dbFail = "entry.findMany"
        THEN [req EXCEPT !.calls = <<"user.findUnique", "entry.findMany">>,
                         !.status = 500]
        ELSE [req EXCEPT !.calls = <<"user.findUnique", "entry.findMany">>,
                         !.rows = findMany(store, userId, tieBreak),
                         !.status = 200]

EntriesGET(store, session, dbFail, tieBreak) ==
    LET req == [Idle EXCEPT !.endpoint = "entries.GET", !.session = session]
        in == [req EXCEPT !.dbFail = dbFail]
        userId == findUnique(session.email)
    IN  IF ~session.present \/ session.email = Undef
        THEN [req EXCEPT !.status = 401]
        ELSE IF dbFail = "user.findUnique"
        THEN [in EXCEPT !.calls = <<"user.findUnique">>, !.status = 500]
        ELSE IF userId = Undef
        THEN [in EXCEPT !.calls = <<"user.findUnique">>, !.status = 404]
        ELSE IF dbFail = "entry.findMany"
        THEN [in EXCEPT !.calls = <<"user.findUnique", "entry.findMany">>,
                        !.status = 500]
        ELSE [in EXCEPT !.calls = <<"user.findUnique", "entry.findMany">>,
                        !.rows = findMany(store, userId, tieBreak),
                        !.status = 200]

(***************************************************************************)
(* Inputs of the requests.                                                 *)
(***************************************************************************)
Chars == {" ", "\n", "a"}

Texts ==
    {NoText, [kind |-> "other", chars |-> <<>>]}
    \cup {[kind |-> "string", chars |-> cs] :
             cs \in UNION {[1..k -> Chars] : k \in 0..MaxTextLen}}

SentimentLabels == {"positive", "negative", "neutral"}

ContentOf(shape, obj) == [kind |-> "content", content |-> [form |-> shape, obj |-> obj]]

ResultObjects ==
    {[sentiment |-> s, confidence |-> 9, mood |-> m] :
         s \in SentimentLabels, m \in {"happy", "calm"}}
    \cup {EmptyResult,
          [sentiment |-> "positive", confidence |-> NoNum, mood |-> Undef],
          [sentiment |-> "mixed", confidence |-> 9, mood |-> "happy"]}

ClassifierOutcomes ==
    {[kind |-> k, content |-> [form |-> "null", obj |-> EmptyResult]] :
         k \in {"throws", "nochoices"}}
    \cup {ContentOf(f, EmptyResult) : f \in {"null", "empty", "text"}}
    \cup {ContentOf("json", o) : o \in ResultObjects}

\* sentiment and mood as they arrive in the request body: the labels, other
\* strings, the empty string, a name Object.prototype defines; a missing
\* field is undefined
SentimentTokens == SentimentLabels \cup {"mixed", "", "constructor", Undef}

MoodLabels == DOMAIN moodGenres

MoodTokens == MoodLabels \cup {"bored", "constructor", Undef}

CatalogOutcomes ==
    {[kind |-> "ok", tracks |-> t] : t \in {<<>>, <<"t1", "t2">>}}
    \cup {[kind |-> k, tracks |-> <<>>] : k \in {"status", "network", "badjson"}}

Bodies ==
    {[content |-> "c1", sentiment |-> "positive", confidence |-> 9,
      mood |-> "happy", songId |-> "t1", userId |-> Undef],
     [content |-> "c2", sentiment |-> "neutral", confidence |-> 5,
      mood |-> "calm", songId |-> Undef, userId |-> Undef],
     [content |-> "c3", sentiment |-> "negative", confidence |-> 7,
      mood |-> "sad", songId |-> Undef, userId |-> "u2"],
     NoBody}

(***************************************************************************)
(* A table that PreFill successful POSTs have written, one per clock       *)
(* reading: most rows belong to a@x, every thirteenth to b@x.              *)
(***************************************************************************)
FilledRow(k) ==
    LET who == IF k % 13 = 0 THEN "b@x" ELSE "a@x"
        body == CHOOSE b \in Bodies : b.content = "c1"
    IN  [NewEntry(<<>>, findUnique(who), body, k) EXCEPT !.id = k]

Filled == [k \in 1..PreFill |-> FilledRow(k)]

(***************************************************************************)
(* Actions: one request each.                                              *)
(***************************************************************************)
SentimentRequest(SS, TT, CC) ==
    /\ \E session \in SS, parsed \in BOOLEAN, text \in TT, classifier \in CC :
          last' = SentimentPOST(session, parsed, text, classifier)
    /\ UNCHANGED <<entries, clock>>
    /\ UNCHANGED client
    /\ UNCHANGED pages

RecommendationsRequest(SS, ST, MT, CO) ==
    /\ \E session \in SS, parsed \in BOOLEAN, sentiment \in ST, mood \in MT,
          catalog \in CO :
          last' = RecommendationsPOST(session, parsed, sentiment, mood, catalog)
    /\ UNCHANGED <<entries, clock>>
    /\ UNCHANGED client
    /\ UNCHANGED pages

\* the clock reads dt later than at the previous insert (dt = 0: the same
\* timestamp); cap bounds the table
EntriesPOSTRequest(SS, BB, cap) ==
    \E session \in SS, parsed \in BOOLEAN, body \in BB,
       dbFail \in {"none", "user.findUnique", "entry.create"}, dt \in 0..1 :
       LET r == EntriesPOST(entries, session, parsed, body, dbFail, clock + dt)
       IN  /\ Len(r.store) <= cap
           /\ last' = r.resp
           /\ entries' = r.store
           /\ clock' = IF r.store = entries THEN clock ELSE clock + dt
           /\ UNCHANGED client
           /\ UNCHANGED pages

EntriesGETRequest(SS) ==
    /\ \E session \in SS,
          dbFail \in {"none", "user.findUnique", "entry.findMany"},
          tieBreak \in {"asc", "desc"} :
          last' = EntriesGET(entries, session, dbFail, tieBreak)
    /\ UNCHANGED <<entries, clock>>
    /\ UNCHANGED client
    /\ UNCHANGED pages

\* what the catalog service does with GET /me, POST /users/{id}/playlists
\* and POST /playlists/{id}/tracks
Failure(kind) == [kind |-> kind, id |-> Undef]

MeOutcomes ==
    {[kind |-> "ok", id |-> u] : u \in {"su1", "su2"}}
        \cup {Failure(k) : k \in {"status", "network", "badjson"}}

CreateOutcomes ==
    {[kind |-> "ok", id |-> q] : q \in {"p1", "p2"}}
        \cup {Failure(k) : k \in {"status", "network", "badjson"}}

AddOutcomes ==
    {[kind |-> "ok", id |-> Undef]}
        \cup {Failure(k) : k \in {"status", "network"}}

PlaylistNames == {"n1", "n2"}

TrackIdLists == {<<>>, <<"t1">>, <<"t1", "t2">>}

\* a call of SpotifyService.createPlaylist
CreatePlaylistCall ==
    /\ \E name \in PlaylistNames, trackIds \in TrackIdLists,
          me \in MeOutcomes, create \in CreateOutcomes, add \in AddOutcomes :
          LET r == createPlaylist(name, trackIds, me, create, add)
          IN  last' = [Idle EXCEPT !.endpoint = "createPlaylist",
                                   !.name = name, !.trackIds = trackIds,
                                   !.calls = r.calls,
                                   !.outcomes = r.outcomes,
                                   !.playlist = r.playlist]
    /\ UNCHANGED <<entries, clock>>
    /\ UNCHANGED client
    /\ UNCHANGED pages

(***************************************************************************)
(* components/DiaryEntry.tsx: the component's state (useState), its two    *)
(* async handlers cut at their awaits, and what the render enables.  The   *)
(* entry text is its sequence of characters; a track is its id.            *)
(***************************************************************************)
\* useState<SentimentResult | null>.  `of` is not in the component: it
\* records the text whose classification the result is (the body of the
\* request the result answers).
NoSentiment == [null |-> TRUE, value |-> EmptyResult, of |-> <<>>]

Some(result, text) == [null |-> FALSE, value |-> result, of |-> text]

\* useState<SpotifyTrack | null>
NoSong == "null"

FormInit ==
    [entry |-> <<>>, isAnalyzing |-> FALSE, sentiment |-> NoSentiment,
     recommendations |-> <<>>, selectedSong |-> NoSong, isSaving |-> FALSE]

\* the body of POST /api/entries as the form writes it
FormNoBody ==
    [content |-> <<>>, sentiment |-> Undef, confidence |-> NoNum,
     mood |-> Undef, songId |-> Undef]

\* an invocation of handleAnalyze waiting for /api/sentiment (its closure
\* holds the entry text it sent)
AnalyzeTask(text) ==
    [handler |-> "handleAnalyze", pc |-> "sentiment", text |-> text,
     result |-> EmptyResult, body |-> FormNoBody]

\* an invocation of handleSaveEntry waiting for /api/entries
SaveTask(body) ==
    [handler |-> "handleSaveEntry", pc |-> "entries", text |-> <<>>,
     result |-> EmptyResult, body |-> body]

\* what a step did: its name, the request it issued, and whether the
\* response it handled was OK
NoStep == [step |-> "none", sent |-> "none", ok |-> FALSE]

\* `if (!entry.trim()) return`, then the three setters and the first fetch
handleAnalyze(f) ==
    IF Len(Trim(f.entry)) = 0
    THEN [form |-> f, next |-> {}, sent |-> "none"]
    ELSE [form |-> [f EXCEPT !.isAnalyzing = TRUE,
                             !.sentiment = NoSentiment,
                             !.recommendations = <<>>],
          next |-> {AnalyzeTask(f.entry)},
          sent |-> "sentiment"]

\* the continuation without `if (!sentimentResponse.ok) throw`
handleAnalyzeOnSentimentNoOkTestBug(f, t, resp) ==
    IF resp.kind \in {"network", "badjson"}
    THEN [form |-> [f EXCEPT !.isAnalyzing = FALSE],
          next |-> {}, sent |-> "none"]
    ELSE [form |-> [f EXCEPT !.sentiment = Some(resp.result, t.text)],
          next |-> {[t EXCEPT !.pc = "songs", !.result = resp.result]},
          sent |-> "songs"]

\* after the first await: a rejected fetch, a non-OK response or a rejected
\* json() reach catch and finally; else setSentiment and the second fetch
handleAnalyzeOnSentiment(f, t, resp) ==
    IF resp.kind # "ok"
    THEN [form |-> [f EXCEPT !.isAnalyzing = FALSE],
          next |-> {}, sent |-> "none"]
    ELSE [form |-> [f EXCEPT !.sentiment = Some(resp.result, t.text)],
          next |-> {[t EXCEPT !.pc = "songs", !.result = resp.result]},
          sent |-> "songs"]

\* after the second await: setRecommendations(songsResult.tracks || []),
\* then finally
handleAnalyzeOnSongs(f, t, resp) ==
    IF resp.kind # "ok"
    THEN [form |-> [f EXCEPT !.isAnalyzing = FALSE],
          next |-> {}, sent |-> "none"]
    ELSE [form |-> [f EXCEPT !.recommendations = resp.tracks,
                             !.isAnalyzing = FALSE],
          next |-> {}, sent |-> "none"]

\* `if (!entry.trim() || !sentiment) return`, then setIsSaving and the fetch
handleSaveEntry(f) ==
    IF Len(Trim(f.entry)) = 0 \/ f.sentiment.null
    THEN [form |-> f, next |-> {}, sent |-> "none"]
    ELSE [form |-> [f EXCEPT !.isSaving = TRUE],
          next |-> {SaveTask([content |-> f.entry,
                              sentiment |-> f.sentiment.value.sentiment,
                              confidence |-> f.sentiment.value.confidence,
                              mood |-> f.sentiment.value.mood,
                              songId |-> IF f.selectedSong = NoSong
                                         THEN Undef ELSE f.selectedSong])},
          sent |-> "entries"]

\* the reset moved into finally
handleSaveEntryOnResponseAlwaysResetBug(f, t, resp) ==
    [form |-> [f EXCEPT !.entry = <<>>, !.sentiment = NoSentiment,
                        !.recommendations = <<>>,
                        !.selectedSong = NoSong, !.isSaving = FALSE],
     next |-> {}, sent |-> "none"]

\* after the await: the form is reset on an OK response; finally
handleSaveEntryOnResponse(f, t, resp) ==
    IF resp.kind # "ok"
    THEN [form |-> [f EXCEPT !.isSaving = FALSE],
          next |-> {}, sent |-> "none"]
    ELSE [form |-> [f EXCEPT !.entry = <<>>, !.sentiment = NoSentiment,
                             !.recommendations = <<>>,
                             !.selectedSong = NoSong, !.isSaving = FALSE],
          next |-> {}, sent |-> "none"]

\* disabled={!entry.trim() || isAnalyzing}
AnalyzeDisabled(f) == Len(Trim(f.entry)) = 0 \/ f.isAnalyzing

\* {recommendations.length > 0 && <SongRecommendations ... />}
SongsShown(f) == Len(f.recommendations) > 0

\* {sentiment && <Button onClick={handleSaveEntry} disabled={isSaving}>}
SaveShown(f) == ~f.sentiment.null

\* the button without its disabled attribute
SaveDisabledNeverBug(f) == FALSE

SaveDisabled(f) == f.isSaving

\* what the user types, and what the three endpoints answer to the form
FormTexts == {<<>>, <<" ">>, <<"a">>, <<"a", " ">>, <<"\n", "a">>}

FormResults ==
    {[sentiment |-> "positive", confidence |-> 9, mood |-> "happy"],
     DefaultResult}

SentimentResponses ==
    {[kind |-> "ok", result |-> r] : r \in FormResults}
        \cup {[kind |-> k, result |-> EmptyResult] :
                 k \in {"status", "network", "badjson"}}

SongsResponses == CatalogOutcomes

SaveResponses == {[kind |-> k] : k \in {"ok", "status", "network"}}

\* onChange={(e) => setEntry(e.target.value)}
TypeEntry ==
    /\ \E text \in FormTexts : form' = [form EXCEPT !.entry = text]
    /\ did' = [NoStep EXCEPT !.step = "type"]
    /\ UNCHANGED <<tasks, entries, clock, last, page, recent>>

ClickAnalyze ==
    /\ ~AnalyzeDisabled(form)
    /\ LET r == handleAnalyze(form)
       IN  /\ form' = r.form
           /\ tasks' = tasks \cup r.next
           /\ did' = [NoStep EXCEPT !.step = "analyze.click", !.sent = r.sent]
    /\ UNCHANGED <<entries, clock, last, page, recent>>

SentimentResponse ==
    /\ \E t \in tasks, resp \in SentimentResponses :
          /\ t.handler = "handleAnalyze" /\ t.pc = "sentiment"
          /\ LET r == handleAnalyzeOnSentiment(form, t, resp)
             IN  /\ form' = r.form
                 /\ tasks' = (tasks \ {t}) \cup r.next
                 /\ did' = [step |-> "sentiment.response", sent |-> r.sent,
                            ok |-> resp.kind = "ok"]
    /\ UNCHANGED <<entries, clock, last, page, recent>>

SongsResponse ==
    /\ \E t \in tasks, resp \in SongsResponses :
          /\ t.handler = "handleAnalyze" /\ t.pc = "songs"
          /\ LET r == handleAnalyzeOnSongs(form, t, resp)
             IN  /\ form' = r.form
                 /\ tasks' = (tasks \ {t}) \cup r.next
                 /\ did' = [step |-> "songs.response", sent |-> r.sent,
                            ok |-> resp.kind = "ok"]
    /\ UNCHANGED <<entries, clock, last, page, recent>>

\* onSelectSong={setSelectedSong}, on one of the songs shown
SelectSong ==
    /\ SongsShown(form)
    /\ \E i \in 1..Len(form.recommendations) :
          form' = [form EXCEPT !.selectedSong = form.recommendations[i]]
    /\ did' = [NoStep EXCEPT !.step = "select"]
    /\ UNCHANGED <<tasks, entries, clock, last, page, recent>>

ClickSave ==
    /\ SaveShown(form) /\ ~SaveDisabled(form)
    /\ LET r == handleSaveEntry(form)
       IN  /\ form' = r.form
           /\ tasks' = tasks \cup r.next
           /\ did' = [NoStep EXCEPT !.step = "save.click", !.sent = r.sent]
    /\ UNCHANGED <<entries, clock, last, page, recent>>

SaveResponse ==
    /\ \E t \in tasks, resp \in SaveResponses :
          /\ t.handler = "handleSaveEntry" /\ t.pc = "entries"
          /\ LET r == handleSaveEntryOnResponse(form, t, resp)
             IN  /\ form' = r.form
                 /\ tasks' = (tasks \ {t}) \cup r.next
                 /\ did' = [step |-> "save.response", sent |-> r.sent,
                            ok |-> resp.kind = "ok"]
    /\ UNCHANGED <<entries, clock, last, page, recent>>

(***************************************************************************)
(* app/dashboard/page.tsx and app/auth/signin/page.tsx.  `page` holds the   *)
(* route the browser shows, whether a session exists (the cookie), what    *)
(* useSession gives the Dashboard (status and data), what is rendered, the *)
(* route a router.push asked for and that is not shown yet, the component  *)
(* that ran in the last step, whether SignIn's getSession() is still       *)
(* awaited, and how the route shown was reached (typed url, router.push,   *)
(* or the callbackUrl of signIn / signOut).                                *)
(***************************************************************************)
PageInit ==
    [route |-> "none", session |-> FALSE, status |-> "loading",
     data |-> FALSE, rendered |-> "none", pushed |-> "none", by |-> "none",
     checking |-> FALSE, via |-> "none"]

\* the component without `if (!session) return null`
DashboardNoSessionTestBug(status, data) ==
    [rendered |-> IF status = "loading" THEN "placeholder" ELSE "dashboard",
     pushed |-> IF status = "loading" THEN "none"
                ELSE IF ~data THEN "/auth/signin" ELSE "none"]

\* Dashboard: what it returns and what its effect pushes, for what
\* useSession gives
Dashboard(status, data) ==
    [rendered |-> IF status = "loading" THEN "placeholder"
                  ELSE IF ~data THEN "nothing" ELSE "dashboard",
     pushed |-> IF status = "loading" THEN "none"
                ELSE IF ~data THEN "/auth/signin" ELSE "none"]

\* SignIn: getSession().then((session) => { if (session) router.push(...) })
SignInEffect(session) == IF session THEN "/dashboard" ELSE "none"

\* the Dashboard renders and its effect runs
RenderDashboard(pg, status, data) ==
    LET d == Dashboard(status, data)
    IN  [pg EXCEPT !.status = status, !.data = data,
                   !.rendered = d.rendered, !.pushed = d.pushed,
                   !.by = "Dashboard"]

\* the browser shows a route: the page mounts.  useSession starts with
\* status loading; SignIn's effect calls getSession()
MountPage(pg, route, via) ==
    IF route = "/dashboard"
    THEN RenderDashboard([pg EXCEPT !.route = route, !.checking = FALSE,
                                    !.via = via],
                         "loading", FALSE)
    ELSE [pg EXCEPT !.route = route, !.status = "loading", !.data = FALSE,
                    !.rendered = "signin", !.pushed = "none",
                    !.by = "SignIn", !.checking = TRUE, !.via = via]

\* DiaryEntry and RecentEntries are children of what the Dashboard returns
\* last: they exist while it is rendered, and mount with it
ChildForm(before, after, f) ==
    IF after.rendered = "dashboard" /\ before.rendered = "dashboard"
    THEN f ELSE FormInit

ChildRecent(before, after, r) ==
    IF after.rendered # "dashboard"
    THEN [mounted |-> FALSE, isLoading |-> TRUE, entries |-> <<>>,
          pending |-> FALSE]
    ELSE IF before.rendered = "dashboard" THEN r
    ELSE [mounted |-> TRUE, isLoading |-> TRUE, entries |-> <<>>,
          pending |-> TRUE]

(***************************************************************************)
(* components/RecentEntries.tsx: the component's state and its mount       *)
(* effect fetchEntries, cut at its await.  A row is its id.                *)
(***************************************************************************)
\* useState<DiaryEntry[]>([]), useState(true); pending: fetchEntries waits
\* for GET /api/entries
RecentInit ==
    [mounted |-> FALSE, isLoading |-> TRUE, entries |-> <<>>,
     pending |-> FALSE]

\* fetchEntries without its finally: the flag is cleared on success only
fetchEntriesOnResponseNoFinallyBug(r, resp) ==
    IF resp.kind # "ok"
    THEN [r EXCEPT !.pending = FALSE]
    ELSE [r EXCEPT !.entries = resp.rows, !.isLoading = FALSE,
                   !.pending = FALSE]

\* after the await: a rejected fetch, a non-OK response or a rejected json()
\* reach catch; setEntries(data) otherwise; finally setIsLoading(false)
fetchEntriesOnResponse(r, resp) ==
    IF resp.kind # "ok"
    THEN [r EXCEPT !.isLoading = FALSE, !.pending = FALSE]
    ELSE [r EXCEPT !.entries = resp.rows, !.isLoading = FALSE,
                   !.pending = FALSE]

\* what GET /api/entries answers to the component
RecentResponses ==
    {[kind |-> "ok", rows |-> rows] : rows \in {<<>>, <<"e2", "e1">>}}
        \cup {[kind |-> k, rows |-> <<>>] :
                 k \in {"status", "network", "badjson"}}

\* the component is mounted (anew): first render, then useEffect(..., [])
\* calls fetchEntries
RecentMount ==
    /\ ~recent.pending
    /\ recent' = [RecentInit EXCEPT !.mounted = TRUE, !.pending = TRUE]
    /\ UNCHANGED <<entries, clock, last, client, page>>

RecentResponse ==
    /\ recent.pending
    /\ \E resp \in RecentResponses :
          recent' = fetchEntriesOnResponse(recent, resp)
    /\ UNCHANGED <<entries, clock, last, client, page>>

\* a step of the pages: the children follow what is rendered
PageStep(after) ==
    /\ page' = after
    /\ form' = ChildForm(page, after, form)
    /\ recent' = ChildRecent(page, after, recent)
    /\ UNCHANGED <<entries, clock, last, tasks, did>>

\* the user opens a route
OpenPage ==
    \E route \in {"/dashboard", "/auth/signin"} :
        PageStep(MountPage(page, route, "url"))

\* the route a router.push asked for is shown
Navigate ==
    /\ page.pushed # "none"
    /\ PageStep(MountPage(page, page.pushed, "push"))

\* useSession delivers the session state to the mounted Dashboard
SessionSettles ==
    /\ page.route = "/dashboard" /\ page.pushed = "none"
    /\ LET status == IF page.session THEN "authenticated"
                     ELSE "unauthenticated"
       IN  /\ <<status, page.session>> # <<page.status, page.data>>
           /\ PageStep(RenderDashboard(page, status, page.session))

\* getSession() resolves on the sign-in page
SignInChecked ==
    /\ page.route = "/auth/signin" /\ page.checking
    /\ PageStep([page EXCEPT !.checking = FALSE, !.by = "SignIn",
                             !.pushed = SignInEffect(page.session)])

\* signIn('spotify', { callbackUrl: '/dashboard' }) completes
SignInWithSpotify ==
    /\ page.rendered = "signin"
    /\ PageStep(MountPage([page EXCEPT !.session = TRUE], "/dashboard",
                          "callbackUrl"))

\* signOut({ callbackUrl: '/auth/signin' })
SignOut ==
    /\ page.rendered = "dashboard"
    /\ PageStep(MountPage([page EXCEPT !.session = FALSE], "/auth/signin",
                          "callbackUrl"))

\* the session ends on the server side (expiry)
SessionExpires ==
    /\ page.session
    /\ PageStep([page EXCEPT !.session = FALSE, !.by = "none"])

\* the form is used where the Dashboard shows it
TypeEntryShown == page.rendered = "dashboard" /\ TypeEntry

(***************************************************************************)
(* Specifications.                                                         *)
(***************************************************************************)
Init ==
    /\ entries = <<>>
    /\ clock = 0
    /\ last = Idle
    /\ form = FormInit
    /\ tasks = {}
    /\ did = NoStep
    /\ page = PageInit
    /\ recent = RecentInit

\* the sentiment endpoint alone
NextSentiment == SentimentRequest(Sessions, Texts, ClassifierOutcomes)

SpecSentiment == Init /\ [][NextSentiment]_vars

\* the recommendations endpoint alone
NextMood ==
    RecommendationsRequest({NoSession, SessionOf("a@x", "tok"),
                            SessionOf("a@x", Undef)},
                           SentimentTokens, MoodTokens, CatalogOutcomes)

SpecMood == Init /\ [][NextMood]_vars

\* the entries endpoint alone, over a filled table
InitEntries ==
    /\ entries = Filled
    /\ clock = PreFill
    /\ last = Idle
    /\ form = FormInit
    /\ tasks = {}
    /\ did = NoStep
    /\ page = PageInit
    /\ recent = RecentInit

NextEntries ==
    \/ EntriesPOSTRequest({s \in Sessions : s.accessToken # Undef \/ ~s.present},
                          Bodies, PreFill + MaxNew)
    \/ EntriesGETRequest({s \in Sessions : s.accessToken # Undef \/ ~s.present})

SpecEntries == InitEntries /\ [][NextEntries]_vars

\* SpotifyService.createPlaylist alone
NextPlaylist == CreatePlaylistCall

SpecPlaylist == Init /\ [][NextPlaylist]_vars

\* the DiaryEntry form, with the endpoints as what they answer
NextForm ==
    \/ TypeEntry
    \/ ClickAnalyze
    \/ SentimentResponse
    \/ SongsResponse
    \/ SelectSong
    \/ ClickSave
    \/ SaveResponse

SpecForm == Init /\ [][NextForm]_vars

\* the form and the recent-entries list, with every response that is waited
\* for arriving in the end
NextLive ==
    \/ NextForm
    \/ RecentMount
    \/ RecentResponse

Fairness ==
    /\ WF_vars(SentimentResponse)
    /\ WF_vars(SongsResponse)
    /\ WF_vars(SaveResponse)
    /\ WF_vars(RecentResponse)

SpecLive == Init /\ [][NextLive]_vars /\ Fairness

\* the dashboard and sign-in pages with the Dashboard's children
NextPage ==
    \/ OpenPage
    \/ Navigate
    \/ SessionSettles
    \/ SignInChecked
    \/ SignInWithSpotify
    \/ SignOut
    \/ SessionExpires
    \/ TypeEntryShown
    \/ RecentResponse

SpecPage == Init /\ [][NextPage]_vars

\* the three endpoints together, over a few inputs of each
Next ==
    \/ SentimentRequest(Sessions,
                        {t \in Texts : Len(t.chars) <= 1},
                        {c \in ClassifierOutcomes : c.kind = "throws"})
    \/ RecommendationsRequest(Sessions, {"positive", "constructor"},
                              {"calm", Undef},
                              {c \in CatalogOutcomes : c.tracks = <<>>})
    \/ EntriesPOSTRequest(Sessions, {b \in Bodies : b.content # "c2"}, MaxNew)
    \/ EntriesGETRequest(Sessions)

Spec == Init /\ [][Next]_vars

(***************************************************************************)
(* Properties.                                                             *)
(***************************************************************************)
Features == {"valence", "energy", "danceability"}

Target(query, f) ==
    CASE f = "valence" -> query.target_valence
      [] f = "energy" -> query.target_energy
      [] f = "danceability" -> query.target_danceability

\* the request reached getRecommendations
Recommended == last.endpoint = "recommendations" /\ last.status = 200

\* C1: for every sentiment among positive, negative and neutral and every
\* mood, recognized or not, the recommendation query that getRecommendations
\* builds carries at most 3 genre seeds and a valence, an energy and a
\* danceability target that each lie in [0, 1] (0..10 tenths).
C1_QueryWithinLimits ==
    (Recommended /\ last.query.built /\ last.sentiment \in SentimentLabels) =>
        /\ Len(last.query.seed_genres) <= 3
        /\ \A f \in Features :
              0 <= Target(last.query, f) /\ Target(last.query, f) <= 10

C1_Witness ==
    /\ Recommended /\ last.query.built
    /\ last.sentiment = "negative" /\ last.mood = "bored"
    /\ Len(last.genres) > 3
    /\ Len(last.query.seed_genres) = 3

\* C2: in every query built, each audio feature is the mood's override when
\* the mood's adjustment entry lists that field and the base value of the
\* sentiment (of neutral, for a sentiment without a row) otherwise; and
\* (positive, energetic) gives valence 0.7, energy 0.8, danceability 0.7.
C2_OverridePerField ==
    (Recommended /\ last.query.built) =>
        LET row == IF last.sentiment \in SentimentLabels
                   THEN baseFeatures[last.sentiment] ELSE baseFeatures.neutral
            listed(f) == /\ last.mood \in DOMAIN moodAdjustments
                         /\ f \in DOMAIN moodAdjustments[last.mood]
        IN  /\ \A f \in Features :
                  Target(last.query, f) =
                      IF listed(f) THEN moodAdjustments[last.mood][f] ELSE row[f]
            /\ (last.sentiment = "positive" /\ last.mood = "energetic") =>
                  /\ last.query.target_valence = 7
                  /\ last.query.target_energy = 8
                  /\ last.query.target_danceability = 7

C2_Witness ==
    /\ Recommended /\ last.query.built
    /\ last.sentiment = "positive" /\ last.mood = "energetic"
    /\ last.query.target_energy = 8

\* what the lookups produced for the request: whether they raised, the
\* genre list and the feature triple (carried by the query)
Produced(r) == [threw |-> r.threw, genres |-> r.genres, query |-> r.query]

\* C3: for every sentiment token outside positive, negative, neutral and
\* every mood, the genre list and the feature triple produced are those
\* produced for sentiment neutral with the same mood.
C3_UnknownSentimentIsNeutral ==
    (Recommended /\ last.sentiment \notin SentimentLabels) =>
        /\ Produced(last) =
              Produced(getRecommendations("neutral", last.mood, last.catalog))
        /\ (last.mood \in MoodLabels \cup {Undef} => last.query.built)

\* C4: for every sentiment and every mood token outside the ten recognized
\* moods, the mood contributes no genre and no feature override: the result
\* is the one produced without a mood.
C4_UnknownMoodContributesNothing ==
    (Recommended /\ last.mood \notin MoodLabels) =>
        /\ Produced(last) =
              Produced(getRecommendations(last.sentiment, Undef, last.catalog))
        /\ (last.sentiment \in SentimentLabels => last.query.built)

\* C5: the mapping is total: for every pair of sentiment and mood tokens,
\* unrecognized ones included, the genre and feature lookups complete
\* without raising an error (and so a query is built from their results).
C5_MappingTotal == Recommended => (~last.threw /\ last.query.built)

\* the request reached the sentiment handler with a session and a body
SentimentAsked ==
    last.endpoint = "sentiment" /\ last.session.present /\ last.parsed

\* a text that is missing, empty or made of white space only
Blank(text) ==
    \/ text.kind = "undefined"
    \/ /\ text.kind = "string"
       /\ \A i \in 1..Len(text.chars) : text.chars[i] \in WhiteSpace

\* C6: an authenticated POST to the sentiment endpoint whose text is
\* missing, empty or white space only is answered 400, and the classifier
\* is not called for it.
C6_BlankTextRejected ==
    (SentimentAsked /\ Blank(last.text)) =>
        /\ last.status = 400
        /\ \A i \in 1..Len(last.calls) : last.calls[i] # "classifier"

C6_Witness ==
    /\ SentimentAsked
    /\ last.text.kind = "string" /\ Len(last.text.chars) = MaxTextLen
    /\ Blank(last.text)
    /\ last.status = 400

\* C7: when the classifier call throws, analyzeSentiment returns exactly
\* {sentiment: neutral, confidence: 0.5, mood: calm} and the sentiment
\* endpoint answers 200 with that default, not 500.
C7_ClassifierFailureGivesDefault ==
    (SentimentAsked /\ last.classifier.kind = "throws") =>
        /\ last.status = 200
        /\ last.result = DefaultResult
        /\ last.result.sentiment = "neutral" /\ last.result.confidence = 5
        /\ last.result.mood = "calm"

C7_Witness ==
    /\ SentimentAsked /\ last.classifier.kind = "throws"
    /\ last.calls = <<"classifier">>
    /\ last.status = 200

\* a classifier response that is not the JSON object asked for
Malformed(classifier) ==
    \/ classifier.kind = "nochoices"
    \/ /\ classifier.kind = "content"
       /\ \/ classifier.content.form # "json"
          \/ classifier.content.obj.sentiment = Undef
          \/ classifier.content.obj.confidence = NoNum
          \/ classifier.content.obj.mood = Undef

\* C8: on a malformed classifier response (no or empty message content, or
\* JSON lacking sentiment, confidence or mood) analyzeSentiment returns the
\* neutral default; so every value it returns has a sentiment among
\* positive, negative, neutral, a confidence and a mood.
C8_MalformedResponseGivesDefault ==
    (SentimentAsked /\ last.status = 200) =>
        /\ Malformed(last.classifier) => last.result = DefaultResult
        /\ last.result.sentiment \in SentimentLabels
        /\ last.result.confidence # NoNum
        /\ last.result.mood # Undef

\* C9: a request without a session, to any of the three endpoints, is
\* answered 401 (not 404) before any other work: it issues no database
\* call, no classifier call and no catalog call, and the Entry table is as
\* it was.
C9_UnauthenticatedRejectedFirst ==
    [][(last'.endpoint # "none" /\ ~last'.session.present) =>
           /\ last'.status = 401
           /\ last'.calls = <<>>
           /\ entries' = entries]_vars

C9_Witness ==
    /\ last.endpoint = "entries.POST" /\ ~last.session.present
    /\ last.status = 401
    /\ Len(entries) = MaxNew

\* the rows a successful GET /api/entries returned
Listed == last.endpoint = "entries.GET" /\ last.status = 200

RowsOf(userId) == {i \in 1..Len(entries) : entries[i].userId = userId}

\* C10 as stated: GET /api/entries returns at most 50 records, each created
\* strictly later than the one after it.
C10_StrictlyDescending ==
    Listed =>
        /\ Len(last.rows) <= 50
        /\ \A i \in 1..Len(last.rows) - 1 :
              last.rows[i].createdAt > last.rows[i + 1].createdAt

\* C10, amended: GET /api/entries returns at most 50 records, none created
\* later than the one before it; records created at the same clock reading
\* follow each other in either order.
C10_AtMostFiftyNewestFirst ==
    Listed =>
        /\ Len(last.rows) <= 50
        /\ \A i \in 1..Len(last.rows) - 1 :
              last.rows[i].createdAt >= last.rows[i + 1].createdAt

C10_Witness ==
    /\ Listed
    /\ Len(last.rows) = Take
    /\ Cardinality(RowsOf(last.rows[1].userId)) > 50
    /\ last.rows[1].createdAt = last.rows[2].createdAt
    /\ last.rows[2].createdAt > last.rows[50].createdAt

\* an entries request
EntriesAsked == last.endpoint \in {"entries.POST", "entries.GET"}

\* C11: GET /api/entries returns only entries of the authenticated user (no
\* entry of another user), each as it is in the table and once, and the
\* most recent ones: no entry of this user that it leaves out is newer than
\* one it returns.
C11_OwnMostRecent ==
    Listed =>
        LET uid == UserTable[last.session.email]
            got == {last.rows[i].id : i \in 1..Len(last.rows)}
        IN  /\ \A i \in 1..Len(last.rows) :
                  /\ last.rows[i].userId = uid
                  /\ last.rows[i].id \in 1..Len(entries)
                  /\ entries[last.rows[i].id] = last.rows[i]
            /\ Cardinality(got) = Len(last.rows)
            /\ \A j \in RowsOf(uid) \ got : \A i \in 1..Len(last.rows) :
                  entries[j].createdAt <= last.rows[i].createdAt
            /\ (RowsOf(uid) \ got # {}) => Len(last.rows) = Take

C11_Witness ==
    /\ Listed
    /\ last.session.email = "a@x"
    /\ Len(last.rows) = Take
    /\ RowsOf("u1") \ {last.rows[i].id : i \in 1..Len(last.rows)} # {}
    /\ RowsOf("u2") # {}
    /\ \E i \in RowsOf("u2") : entries[i].createdAt > last.rows[Take].createdAt

\* the session names a user the User table has no row for
NoBackingRecord(session) ==
    session.present /\ session.email # Undef
        /\ session.email \notin DOMAIN UserTable

\* C12: when the session's email has no backing user record, POST and GET
\* /api/entries (with a readable body and a user lookup that completes)
\* answer 404; no entry is created or read and the Entry table is unchanged.
C12_NoUserRecordIs404 ==
    [][(/\ last'.endpoint \in {"entries.POST", "entries.GET"}
        /\ NoBackingRecord(last'.session)
        /\ last'.endpoint = "entries.POST" => last'.parsed
        /\ last'.dbFail # "user.findUnique") =>
           /\ last'.status = 404
           /\ last'.calls = <<"user.findUnique">>
           /\ last'.rows = <<>>
           /\ entries' = entries]_vars

C12_Witness ==
    /\ last.endpoint = "entries.POST"
    /\ NoBackingRecord(last.session)
    /\ last.body.content = "c1" /\ last.dbFail = "none"
    /\ last.status = 404

\* C15: when a prisma call rejects during POST or GET /api/entries (the
\* user lookup, create or findMany), the endpoint answers 500; and no
\* request issues a database operation twice.
C15_PersistenceFailureIs500 ==
    EntriesAsked =>
        /\ (\E i \in 1..Len(last.calls) : last.calls[i] = last.dbFail) =>
              /\ last.status = 500
              /\ last.calls[Len(last.calls)] = last.dbFail
        /\ \A i, j \in 1..Len(last.calls) :
              last.calls[i] = last.calls[j] => i = j

C15_Witness ==
    /\ last.endpoint = "entries.POST"
    /\ last.dbFail = "entry.create"
    /\ last.body.content = "c1"
    /\ last.calls = <<"user.findUnique", "entry.create">>
    /\ last.status = 500

\* C16: entries are immutable: no step changes a field or the owner of an
\* existing entry or removes one; the table changes only by one new entry
\* added by a POST /api/entries that answers 200.
C16_EntriesImmutable ==
    [][/\ Len(entries') >= Len(entries)
       /\ \A i \in 1..Len(entries) : entries'[i] = entries[i]
       /\ entries' # entries =>
             /\ Len(entries') = Len(entries) + 1
             /\ last'.endpoint = "entries.POST" /\ last'.status = 200]_vars

C16_Witness ==
    /\ last.endpoint = "entries.POST" /\ last.status = 200
    /\ Len(entries) = PreFill + 1
    /\ entries[PreFill] = Filled[PreFill]
    /\ entries[PreFill + 1].content = "c2"

\* C13: when the catalog recommendation call fails (a non-OK status, a
\* network error, or a body that does not parse), getRecommendations
\* returns an empty list and the recommendations endpoint answers 200 with
\* {tracks: []}, after that one call.
C13_CatalogFailureGivesEmptyList ==
    (last.endpoint = "recommendations"
        /\ last.catalog.kind \in {"status", "network", "badjson"}) =>
        /\ last.status = 200
        /\ last.tracks = <<>>
        /\ last.calls = <<"catalog.recommendations">>

C13_Witness ==
    /\ last.endpoint = "recommendations"
    /\ last.catalog.kind = "badjson"
    /\ last.sentiment = "positive" /\ last.mood = "happy"
    /\ last.status = 200 /\ last.tracks = <<>>

\* the base genres the lookup of a sentiment yields, and the genres of a mood
BaseGenresOf(sentiment) ==
    IF sentiment \in SentimentLabels THEN genreMap[sentiment]
    ELSE genreMap.neutral

MoodGenresOf(mood) ==
    IF mood \in MoodLabels THEN moodGenres[mood] ELSE <<>>

HasRepeat(seq) == \E i, j \in 1..Len(seq) : i < j /\ seq[i] = seq[j]

\* C17: the seed list of a query is the first 3 entries of (the base genres
\* of the sentiment) followed by (the genres of the mood): the list is cut
\* after the concatenation and nothing is removed from the concatenated
\* list; so the first seed is the first base genre of the sentiment (pop for
\* positive).
C17_SeedsAreFirstThreeOfConcatenation ==
    (Recommended /\ last.query.built) =>
        LET all == BaseGenresOf(last.sentiment) \o MoodGenresOf(last.mood)
        IN  /\ last.genres = all
            /\ last.query.seed_genres = <<all[1], all[2], all[3]>>
            /\ last.query.seed_genres[1] = BaseGenresOf(last.sentiment)[1]
            /\ last.sentiment = "positive" =>
                  last.query.seed_genres[1] = "pop"

C17_Witness ==
    /\ Recommended /\ last.query.built
    /\ last.sentiment = "positive" /\ last.mood = "happy"
    /\ HasRepeat(last.genres)
    /\ last.query.seed_genres = <<"pop", "indie", "electronic">>

\* C18: the genre seed sequence sent to the catalog service holds no genre
\* more than once, for every sentiment and mood.
C18_SeedsHaveNoRepeat ==
    (last.endpoint = "recommendations" /\ last.query.built) =>
        ~HasRepeat(last.query.seed_genres)

C18_Witness ==
    /\ last.endpoint = "recommendations" /\ last.query.built
    /\ last.sentiment = "negative" /\ last.mood = "sad"
    /\ last.calls = <<"catalog.recommendations">>
    /\ Len(last.query.seed_genres) = 3
    /\ \E i \in 1..Len(last.genres) : i > 3 /\ last.genres[i] = last.genres[1]

PlaylistAsked == last.endpoint = "createPlaylist"

\* C14: a failure of any of the three steps of createPlaylist (resolve the
\* current user, create the playlist, add the tracks), be it a non-OK
\* response or a thrown error, makes it return null: a playlist is returned
\* only when every step performed succeeded.
C14_AnyStepFailureGivesNull ==
    PlaylistAsked =>
        (last.playlist # "null" <=>
            \A i \in 1..Len(last.outcomes) : last.outcomes[i].kind = "ok")

\* C19: createPlaylist issues its catalog calls in the order user lookup,
\* playlist create, add tracks, each only after the one before answered OK
\* with a readable body: no create after a failed lookup, no add after a
\* failed create or for an empty track list, and no further call (no
\* delete, no second attempt) after a failure.
C19_PlaylistCallsInOrder ==
    PlaylistAsked =>
        LET n == Len(last.calls)
            order == <<"spotify.me", "spotify.createPlaylist",
                       "spotify.addTracks">>
        IN  /\ n \in 1..3 /\ Len(last.outcomes) = n
            /\ \A i \in 1..n : last.calls[i] = order[i]
            /\ \A i \in 1..(n - 1) : last.outcomes[i].kind = "ok"
            /\ n = 3 => last.trackIds # <<>>

C19_Witness ==
    /\ PlaylistAsked
    /\ last.trackIds = <<"t1", "t2">>
    /\ last.calls = <<"spotify.me", "spotify.createPlaylist">>
    /\ last.outcomes[1].kind = "ok" /\ last.outcomes[2].kind = "status"
    /\ last.playlist = "null"

\* C20: in the DiaryEntry form a recommendation request is issued only in
\* the step that received an OK sentiment response for the same analysis
\* (and carries that response's result); an entry-save request is issued
\* only when a classification result is present (and carries it); and the
\* step that handles a failed sentiment request issues no request and
\* leaves no analysis waiting for recommendations.
C20_PipelineOrder ==
    [][/\ did'.sent = "songs" =>
             /\ did'.step = "sentiment.response" /\ did'.ok
             /\ \E t \in tasks, u \in tasks' :
                   /\ t.handler = "handleAnalyze" /\ t.pc = "sentiment"
                   /\ t \notin tasks'
                   /\ u.handler = "handleAnalyze" /\ u.pc = "songs"
                   /\ u.text = t.text
                   /\ form'.sentiment = Some(u.result, u.text)
       /\ did'.sent = "entries" =>
             /\ did'.step = "save.click"
             /\ ~form.sentiment.null
             /\ \E u \in tasks' \ tasks :
                   /\ u.handler = "handleSaveEntry"
                   /\ u.body.sentiment = form.sentiment.value.sentiment
                   /\ u.body.mood = form.sentiment.value.mood
       /\ (did'.step = "sentiment.response" /\ ~did'.ok) =>
             /\ did'.sent = "none"
             /\ \A u \in tasks' : u.pc # "songs"]_vars

C20_Witness ==
    /\ did.step = "sentiment.response" /\ did.ok /\ did.sent = "songs"
    /\ \E u \in tasks : u.pc = "songs" /\ u.text = <<"a">>
                            /\ form.sentiment = Some(u.result, u.text)
    /\ form.isAnalyzing

\* C21: for every sentiment and every mood, the genre seeds sent to the
\* catalog service are exactly the first three base genres of the sentiment
\* (of neutral for a sentiment the table does not list): the mood never
\* changes the seed list.
C21_SeedsAreFirstThreeBaseGenres ==
    (last.endpoint = "recommendations"
        /\ last.calls = <<"catalog.recommendations">>) =>
        /\ last.query.built
        /\ last.query.seed_genres = SubSeq(BaseGenresOf(last.sentiment), 1, 3)
        /\ \A mood \in MoodTokens :
              LET other == BuildQuery(last.sentiment, mood)
              IN  other.built =>
                     other.seed_genres = last.query.seed_genres

C21_Witness ==
    /\ last.endpoint = "recommendations"
    /\ last.calls = <<"catalog.recommendations">>
    /\ last.sentiment = "mixed" /\ last.mood = "energetic"
    /\ last.query.seed_genres = <<"chill", "acoustic", "indie-folk">>

\* C22: the entry a POST /api/entries creates is owned by the user whose
\* email is the session's: its userId is the id of that user's record,
\* whatever the request body holds, so no request creates an entry owned by
\* another user.
C22_OwnerIsSessionUser ==
    [][(last'.endpoint = "entries.POST" /\ entries' # entries) =>
          LET created == entries'[Len(entries')]
          IN  /\ last'.session.present
              /\ last'.session.email \in DOMAIN UserTable
              /\ created.userId = UserTable[last'.session.email]
              /\ created.content = last'.body.content]_vars

C22_Witness ==
    /\ last.endpoint = "entries.POST" /\ last.status = 200
    /\ last.session.email = "a@x"
    /\ last.body.userId = "u2"
    /\ entries[Len(entries)].content = "c3"
    /\ entries[Len(entries)].userId = "u1"

\* C23: in the DiaryEntry form, after any sequence of analyze, select, edit
\* and save actions, selectedSong is null or one of the tracks of the
\* current recommendations list.
C23_SelectionAmongRecommendations ==
    form.selectedSong # NoSong =>
        \E i \in 1..Len(form.recommendations) :
            form.recommendations[i] = form.selectedSong

\* C24: in the DiaryEntry form, under every interleaving of an analysis in
\* flight with a save, the recommendations list is non-empty only while a
\* classification result is present.
C24_RecommendationsOnlyWithSentiment ==
    Len(form.recommendations) > 0 => ~form.sentiment.null

\* C25: the content handleSaveEntry sends is the text that was classified:
\* the sentiment, confidence and mood sent with it are the result of the
\* sentiment request whose text is exactly that content.
\* (Stated on the state right after the click: the click leaves sentiment
\* as it was.)
C25_SavedContentIsClassifiedText ==
    did.sent = "entries" =>
        \E u \in tasks :
            /\ u.handler = "handleSaveEntry"
            /\ u.body.sentiment = form.sentiment.value.sentiment
            /\ u.body.confidence = form.sentiment.value.confidence
            /\ u.body.mood = form.sentiment.value.mood
            /\ u.body.content = form.sentiment.of

\* the four fields of the form that a save resets
Content(f) ==
    [entry |-> f.entry, sentiment |-> f.sentiment,
     recommendations |-> f.recommendations, selectedSong |-> f.selectedSong]

\* C26: handleSaveEntry issues a save request only when the entry text is
\* non-blank and a classification is present; the step that handles an OK
\* save response resets entry, sentiment, recommendations and selectedSong
\* to their initial values; the step that handles a failed save (non-OK
\* response or thrown error) leaves all four unchanged.
C26_SaveFrame ==
    [][/\ did'.sent = "entries" =>
             /\ Len(Trim(form.entry)) > 0
             /\ ~form.sentiment.null
             /\ Content(form') = Content(form)
       /\ (did'.step = "save.click" /\ did'.sent = "none") =>
             /\ form' = form /\ tasks' = tasks
       /\ (did'.step = "save.response" /\ did'.ok) =>
             Content(form') = Content(FormInit)
       /\ (did'.step = "save.response" /\ ~did'.ok) =>
             Content(form') = Content(form)]_vars

C26_Witness ==
    /\ did.step = "save.response" /\ ~did.ok
    /\ form.entry = <<"a">>
    /\ ~form.sentiment.null
    /\ form.recommendations = <<"t1", "t2">>
    /\ form.selectedSong = "t2"
    /\ ~form.isSaving

\* the invocations of a handler that wait for a response
InFlight(ts, handler) == {t \in ts : t.handler = handler}

\* C27: at most one analysis and at most one save are in flight at a time in
\* a DiaryEntry form: a sentiment request is issued only when no analysis is
\* in flight and a save request only when no save is in flight, so every
\* save response answers the one save request in flight.
C27_OneInFlight ==
    [][/\ Cardinality(InFlight(tasks', "handleAnalyze")) <= 1
       /\ Cardinality(InFlight(tasks', "handleSaveEntry")) <= 1
       /\ did'.sent = "sentiment" => InFlight(tasks, "handleAnalyze") = {}
       /\ did'.sent = "entries" => InFlight(tasks, "handleSaveEntry") = {}
       /\ did'.step = "save.response" =>
             /\ Cardinality(InFlight(tasks, "handleSaveEntry")) = 1
             /\ InFlight(tasks', "handleSaveEntry") = {}
       /\ InFlight(tasks', "handleAnalyze") # {} => form'.isAnalyzing
       /\ InFlight(tasks', "handleSaveEntry") # {} => form'.isSaving]_vars

C27_Witness ==
    /\ \E t \in tasks : t.handler = "handleAnalyze" /\ t.pc = "songs"
    /\ \E t \in tasks : t.handler = "handleSaveEntry"
    /\ form.isAnalyzing /\ form.isSaving
    /\ Cardinality(tasks) = 2

\* C28: every started analysis and every started save ends with its busy
\* flag cleared once the responses waited for arrive (OK, error status or
\* thrown error): isAnalyzing and isSaving return to false, and
\* RecentEntries' isLoading is false after its fetch whatever the outcome.
C28_BusyFlagsCleared ==
    /\ form.isAnalyzing ~> ~form.isAnalyzing
    /\ form.isSaving ~> ~form.isSaving
    /\ recent.pending ~> (~recent.pending /\ ~recent.isLoading)

C28_Witness ==
    /\ did.step = "songs.response" /\ ~did.ok
    /\ ~form.isAnalyzing /\ ~form.sentiment.null
    /\ recent.mounted /\ ~recent.pending /\ ~recent.isLoading
    /\ recent.entries = <<>>

\* C29: the Dashboard never renders the diary form or the recent-entries
\* list without a session: while the session status is loading it renders
\* only the loading placeholder and pushes no route; once the status is
\* settled with no session it renders nothing and pushes /auth/signin; and
\* the sign-in page pushes /dashboard only when a session exists.
C29_NoDashboardWithoutSession ==
    [][/\ page'.rendered = "dashboard" =>
             page'.status = "authenticated" /\ page'.data
       /\ (recent'.mounted \/ form' # FormInit) =>
             page'.rendered = "dashboard"
       /\ (page'.by = "Dashboard" /\ page'.status = "loading") =>
             page'.rendered = "placeholder" /\ page'.pushed = "none"
       /\ (page'.by = "Dashboard" /\ page'.status # "loading"
              /\ ~page'.data) =>
             page'.rendered = "nothing" /\ page'.pushed = "/auth/signin"
       /\ (page'.pushed = "/dashboard" /\ page.pushed # "/dashboard") =>
             page'.by = "SignIn" /\ page.session
       /\ (page'.by = "SignIn" /\ page.checking /\ ~page'.checking
              /\ ~page.session) =>
             page'.pushed = "none"]_vars

C29_Witness ==
    /\ page.by = "Dashboard" /\ page.route = "/dashboard"
    /\ page.status = "unauthenticated" /\ ~page.data
    /\ page.rendered = "nothing" /\ page.pushed = "/auth/signin"
    /\ ~recent.mounted /\ form = FormInit

====
